---------------------------- MODULE Spec2Model ----------------------------
(***************************************************************************)
(* Poll / vote server actions of alx-polly                                 *)
(* (src/app/lib/context/auth-context.tsx, lines 103-384) over the polls    *)
(* and votes tables.                                                       *)
(*                                                                         *)
(* A string is a sequence of one-character strings.  A poll id is an       *)
(* integer: k >= 1 is the k-th well-formed uuid, 0 is the empty string and *)
(* -1 a non-empty string that is no uuid.  A server action runs between    *)
(* its awaits without interleaving; validation and identity resolution     *)
(* read no table, so they are taken together with the action's first       *)
(* table access, and every later table access is a step of its own.        *)
(* The created_at column of a vote row is read by nothing and is left out. *)
(*                                                                         *)
(* The client's AuthProvider (the same file, lines 8-94) is the variable   *)
(* auth: its React state (session, user, loading), the effect's mounted    *)
(* flag, the position of initAuth and of signOut at their awaits, and the  *)
(* session the Supabase client holds.  A value of the browser is a record  *)
(* with a kind: null, undefined (a key that is not there) or object.       *)
(***************************************************************************)
EXTENDS Integers, Sequences, FiniteSets, TLC

VARIABLES polls, votes, nextId, calls, auth

vars == <<polls, votes, nextId, calls, auth>>

---------------------------------------------------------------------------
(* Bounds of the model *)

\* polls ever inserted
MaxPolls == 1
\* polls ever inserted, where polls are listed and deleted among others
ListPolls == 2
\* largest option index a client submits
MaxIndex == 2
\* auth state changes the Supabase client goes through
MaxEvents == 2

(* Limits of CreateUpdatePollSchema *)
MinQuestion == 5
MaxQuestion == 1000
MinOptionLen == 1
MaxOptionLen == 300
MinOptions == 2
MaxOptions == 50

\* the server runs at most two invocations at a time
Calls == {1, 2}
Users == {"ann", "adm"}
Sessions == Users \cup {"absent", "unreachable"}

\* profiles.role, as AdminPage reads it
Role(u) == IF u = "adm" THEN "admin" ELSE "user"

---------------------------------------------------------------------------
(* Strings *)

Rep(ch, n) == [i \in 1..n |-> ch]

SetMin(S) == CHOOSE x \in S : \A y \in S : x <= y
SetMax(S) == CHOOSE x \in S : \A y \in S : x >= y

IsSpace(ch) == ch = " "

\* String.prototype.trim
Trim(s) ==
  LET keep == {i \in 1..Len(s) : ~IsSpace(s[i])}
  IN  IF keep = {} THEN <<>> ELSE SubSeq(s, SetMin(keep), SetMax(keep))

NonEmpty(s) == s # <<>>

\* .filter(Boolean) on an array of strings
FilterBoolean(ss) == SelectSeq(ss, NonEmpty)

MapTrim(ss) == [i \in 1..Len(ss) |-> Trim(ss[i])]

\* the options only filtered, never trimmed
NormalizeOptions_NoTrim(optionsRaw) == FilterBoolean(optionsRaw)

\* formData.getAll("options").filter(Boolean), then trim and filter again
NormalizeOptions(optionsRaw) == FilterBoolean(MapTrim(FilterBoolean(optionsRaw)))

\* formData.get("question") ?? "": the field is absent (<<>>) or holds one value
QuestionOf(fd) == IF fd.question = <<>> THEN <<>> ELSE fd.question[1]

---------------------------------------------------------------------------
(* Validation schemas *)

\* the schema without .min(5) on the question
ValidQuestion_NoMin(q) == Len(q) <= MaxQuestion

ValidQuestion(q) == Len(q) >= MinQuestion /\ Len(q) <= MaxQuestion

ValidOption(o) == Len(o) >= MinOptionLen /\ Len(o) <= MaxOptionLen

\* the schema without .max(50)
ValidOptions_NoMax(os) ==
  /\ \A i \in 1..Len(os) : ValidOption(os[i])
  /\ Len(os) >= MinOptions

ValidOptions(os) ==
  /\ \A i \in 1..Len(os) : ValidOption(os[i])
  /\ Len(os) >= MinOptions
  /\ Len(os) <= MaxOptions

CreateUpdatePollSchema(q, os) == ValidQuestion(q) /\ ValidOptions(os)

IsUuid(id) == id >= 1

\* the schema with pollId a plain string
SubmitVoteSchema_NoUuid(pollId, optionIndex) == optionIndex >= 0

SubmitVoteSchema(pollId, optionIndex) == IsUuid(pollId) /\ optionIndex >= 0

Falsy(id) == id = 0

---------------------------------------------------------------------------
(* Identity *)

\* a resolver that answers a failed read of the session like a missing user
getAuthenticatedUser_ErrorAsNull(session) ==
  IF session \in {"unreachable", "absent"} THEN "null" ELSE session

\* getAuthenticatedUser: the user, null, or a throw when the session store fails
getAuthenticatedUser(session) ==
  IF session = "unreachable" THEN "throw"
  ELSE IF session = "absent" THEN "null"
  ELSE session

---------------------------------------------------------------------------
(* Tables *)

PollsWithId(id) == {r \in polls : r.id = id}

\* .eq("id", id).single(): a result only when exactly one row matches
SingleFound(id) == Cardinality(PollsWithId(id)) = 1

ThePoll(id) == CHOOSE r \in polls : r.id = id

InsertPoll(user, q, os) ==
  polls \cup {[id |-> nextId, user_id |-> user, question |-> q,
               options |-> os, created_at |-> nextId]}

\* a filter that matches no row
DeleteMatches_None(r, id) == FALSE

\* .eq("id", id) of the delete
DeleteMatches(r, id) == r.id = id

\* from("polls").delete().eq("id", id)
DeletePollRows(id) == {r \in polls : ~DeleteMatches(r, id)}

\* the cascade of that delete on the votes table
CascadeVotes(id) == {v \in votes : v.poll_id # id}

\* an update with no .eq("id", pollId): every row takes the new values
UpdatePollRows_AllRows(id, q, os) ==
  {[r EXCEPT !.question = q, !.options = os] : r \in polls}

\* from("polls").update({question, options}).eq("id", pollId)
UpdatePollRows(id, q, os) ==
  {IF r.id = id THEN [r EXCEPT !.question = q, !.options = os] ELSE r : r \in polls}

\* a plain insert in place of the upsert
UpsertVote_Insert(pollId, userId, optionIndex) ==
  votes \cup {[poll_id |-> pollId, user_id |-> userId, option_index |-> optionIndex]}

\* an upsert whose conflict key leaves out user_id's pair: (poll_id, option_index)
UpsertVote_WrongKey(pollId, userId, optionIndex) ==
  {v \in votes : ~(v.poll_id = pollId /\ v.option_index = optionIndex)}
    \cup {[poll_id |-> pollId, user_id |-> userId, option_index |-> optionIndex]}

\* upsert(payload, {onConflict: (poll_id, user_id)})
UpsertVote(pollId, userId, optionIndex) ==
  {v \in votes : ~(v.poll_id = pollId /\ v.user_id = userId)}
    \cup {[poll_id |-> pollId, user_id |-> userId, option_index |-> optionIndex]}

VotesOf(pollId, userId) == {v \in votes : v.poll_id = pollId /\ v.user_id = userId}

\* the option index of the row an upsert on (pollId, userId) replaces, or -1
Replaced(pollId, userId) ==
  IF VotesOf(pollId, userId) = {} THEN -1
  ELSE (CHOOSE v \in VotesOf(pollId, userId) : TRUE).option_index

RECURSIVE NewestFirst_Ascending(_)
\* the order with ascending left at its default, true
NewestFirst_Ascending(rows) ==
  IF rows = {} THEN <<>>
  ELSE LET top == CHOOSE r \in rows : \A s \in rows : r.created_at <= s.created_at
       IN  <<top>> \o NewestFirst_Ascending(rows \ {top})

RECURSIVE NewestFirst(_)
\* .order("created_at", {ascending: false})
NewestFirst(rows) ==
  IF rows = {} THEN <<>>
  ELSE LET top == CHOOSE r \in rows : \A s \in rows : r.created_at >= s.created_at
       IN  <<top>> \o NewestFirst(rows \ {top})

---------------------------------------------------------------------------
(* Client auth context: values and schemas *)

NullValue == [kind |-> "null"]
NoValue == [kind |-> "undefined"]
IsString(v) == v \notin {"null", "undefined"}

\* UserSchema: id a string, email an e-mail address or null; both keys required
UserSchema(u) ==
  /\ u.kind = "object"
  /\ IsString(u.id)
  /\ u.email = "null" \/ u.email = "u@x.org"

\* safeParse keeps the keys of the schema and drops the others
ParsedUser(u) == [kind |-> "object", id |-> u.id, email |-> u.email]

\* SessionSchema, .partial(): each key may be missing; access_token a string,
\* refresh_token a string or null, user a UserSchema
SessionSchema(s) ==
  /\ s.access_token # "null"
  /\ s.user = NoValue \/ UserSchema(s.user)

ParsedSession(s) ==
  [kind |-> "object", access_token |-> s.access_token,
   refresh_token |-> s.refresh_token,
   user |-> IF s.user = NoValue THEN NoValue ELSE ParsedUser(s.user)]

\* session && SessionSchema.safeParse(session), then the two branches that set
\* the session and the user
SetSessionAndUser(a, s) ==
  IF s # NullValue /\ SessionSchema(s)
    THEN [a EXCEPT !.session = ParsedSession(s), !.user = ParsedSession(s).user]
    ELSE [a EXCEPT !.session = NullValue, !.user = NullValue]

\* Fields of auth: session, user, loading (the React state); mounted ("new"
\* before the effect has run, then "true", then "false" after its cleanup); initPc
\* and initData (where initAuth is, and the session getSession resolved with);
\* signOutPc; provider (the session the Supabase client holds); and what has
\* happened: events (auth state changes so far), lastEvent (the session of the
\* last event the listener got), lastSet (who set session and user last).
NoEvent == [kind |-> "none"]

AuthInit ==
  [session |-> NullValue, user |-> NullValue, loading |-> TRUE,
   mounted |-> "new", initPc |-> "idle", initData |-> NullValue,
   signOutPc |-> "idle", provider |-> NullValue,
   events |-> 0, lastEvent |-> NoEvent, lastSet |-> "none"]

---------------------------------------------------------------------------
(* Calls *)

\* Fields of a call: what the invocation was given (form, pollId, optionIndex,
\* voter), what it has read (session, once the input checks are passed; user;
\* existing, the owner it looked up), what it returns (result, data), and what
\* it has done: resolved (the identity resolver ran), stored (a table was read
\* or written), revalidated (the path it invalidated), replaced (the option
\* index of the vote row its upsert replaced, -1 when it replaced none).
NoForm == [question |-> <<>>, options |-> <<>>]
NoPath == <<>>
PollsPath == <<"polls">>
PollPath(id) == <<"polls", id>>

Idle ==
  [op |-> "none", pc |-> "idle", session |-> "none", user |-> "none",
   pollId |-> 0, optionIndex |-> 0, voter |-> "none",
   question |-> <<>>, options |-> <<>>, existing |-> "none",
   result |-> "none", data |-> <<>>,
   resolved |-> FALSE, stored |-> FALSE, revalidated |-> NoPath,
   form |-> NoForm, replaced |-> -1]

Done(rec, r) == [rec EXCEPT !.pc = "done", !.result = r]

\* a step of a server invocation replaces its record; the browser's auth
\* context is not the server's to change
Set(c, rec) == calls' = [calls EXCEPT ![c] = rec] /\ UNCHANGED auth

Init ==
  /\ polls = {}
  /\ votes = {}
  /\ nextId = 1
  /\ calls = [c \in Calls |-> Idle]
  /\ auth = AuthInit

(* createPoll *)
CreatePoll(c, fd, session, cap) ==
  /\ calls[c].pc = "idle"
  /\ nextId <= cap
  /\ LET question == QuestionOf(fd)
         options  == NormalizeOptions(fd.options)
         rec0     == [Idle EXCEPT !.op = "createPoll", !.form = fd,
                                  !.question = question, !.options = options]
         user     == getAuthenticatedUser(session)
         rec1     == [rec0 EXCEPT !.resolved = TRUE, !.session = session]
     IN  IF ~CreateUpdatePollSchema(question, options)
           THEN Set(c, Done(rec0, "validation")) /\ UNCHANGED <<polls, votes, nextId>>
         ELSE IF user = "throw"
           THEN Set(c, Done(rec1, "session")) /\ UNCHANGED <<polls, votes, nextId>>
         ELSE IF user = "null"
           THEN Set(c, Done(rec1, "unauthenticated")) /\ UNCHANGED <<polls, votes, nextId>>
         ELSE \E error \in BOOLEAN :
                LET rec2 == [rec1 EXCEPT !.user = user, !.stored = TRUE]
                IN  IF ~error
                      THEN /\ polls' = InsertPoll(user, question, options)
                           /\ nextId' = nextId + 1
                           /\ Set(c, Done([rec2 EXCEPT !.pollId = nextId,
                                                       !.revalidated = PollsPath], "ok"))
                           /\ UNCHANGED votes
                      ELSE /\ Set(c, Done(rec2, "storage"))
                           /\ UNCHANGED <<polls, votes, nextId>>

(* getUserPolls *)
GetUserPolls(c, session) ==
  /\ calls[c].pc = "idle"
  /\ LET user == getAuthenticatedUser(session)
         rec1 == [Idle EXCEPT !.op = "getUserPolls", !.session = session,
                              !.resolved = TRUE]
     IN  IF user = "throw" THEN Set(c, Done(rec1, "session"))
         ELSE IF user = "null" THEN Set(c, Done(rec1, "unauthenticated"))
         ELSE Set(c, Done([rec1 EXCEPT !.user = user, !.stored = TRUE,
                             !.data = NewestFirst({r \in polls : r.user_id = user})],
                          "ok"))
  /\ UNCHANGED <<polls, votes, nextId>>

(* getPollById *)
GetPollById(c, id) ==
  /\ calls[c].pc = "idle"
  /\ LET rec0 == [Idle EXCEPT !.op = "getPollById", !.pollId = id]
         rec1 == [rec0 EXCEPT !.stored = TRUE]
     IN  IF Falsy(id) THEN Set(c, Done(rec0, "invalid_id"))
         ELSE IF ~SingleFound(id) THEN Set(c, Done(rec1, "notfound"))
         ELSE Set(c, Done([rec1 EXCEPT !.data = <<ThePoll(id)>>], "ok"))
  /\ UNCHANGED <<polls, votes, nextId>>

\* a range check that lets the index one past the end through
OptionOutOfRange_OnePast(optionIndex, options) ==
  optionIndex < 0 \/ optionIndex > Len(options)

\* submitVote: optionIndex < 0 || optionIndex >= options.length
OptionOutOfRange(optionIndex, options) ==
  optionIndex < 0 \/ optionIndex >= Len(options)

(* submitVote: validation, identity, poll read and range check *)
SubmitVoteRead(c, pollIdRaw, optionIndexRaw, session) ==
  /\ calls[c].pc = "idle"
  /\ LET rec0 == [Idle EXCEPT !.op = "submitVote",
                              !.pollId = pollIdRaw, !.optionIndex = optionIndexRaw]
         user == getAuthenticatedUser(session)
         rec1 == [rec0 EXCEPT !.resolved = TRUE, !.session = session]
         rec2 == [rec1 EXCEPT !.user = user, !.stored = TRUE]
     IN  IF ~SubmitVoteSchema(pollIdRaw, optionIndexRaw)
           THEN Set(c, Done(rec0, "validation"))
         ELSE IF user = "throw" THEN Set(c, Done(rec1, "session"))
         ELSE IF user = "null" THEN Set(c, Done(rec1, "unauthenticated"))
         ELSE IF ~SingleFound(pollIdRaw) THEN Set(c, Done(rec2, "notfound"))
         ELSE IF OptionOutOfRange(optionIndexRaw, ThePoll(pollIdRaw).options)
           THEN Set(c, Done(rec2, "invalid_option"))
         ELSE Set(c, [rec2 EXCEPT !.pc = "upsert"])
  /\ UNCHANGED <<polls, votes, nextId>>

\* a submitVote that revalidates the poll's path before it looks at the
\* upsert's error
SubmitVoteUpsert_RevalidateFirst(c) ==
  /\ calls[c].pc = "upsert"
  /\ \E error \in BOOLEAN :
       IF ~error
         THEN /\ votes' = UpsertVote(calls[c].pollId, calls[c].user, calls[c].optionIndex)
              /\ Set(c, Done([calls[c] EXCEPT
                                !.revalidated = PollPath(calls[c].pollId),
                                !.replaced = Replaced(calls[c].pollId, calls[c].user)],
                             "ok"))
         ELSE /\ Set(c, Done([calls[c] EXCEPT
                                !.revalidated = PollPath(calls[c].pollId)], "storage"))
              /\ UNCHANGED votes
  /\ UNCHANGED <<polls, nextId>>

(* submitVote: the upsert and the revalidation *)
SubmitVoteUpsert(c) ==
  /\ calls[c].pc = "upsert"
  /\ \E error \in BOOLEAN :
       IF ~error
         THEN /\ votes' = UpsertVote(calls[c].pollId, calls[c].user, calls[c].optionIndex)
              /\ Set(c, Done([calls[c] EXCEPT
                                !.revalidated = PollPath(calls[c].pollId),
                                !.replaced = Replaced(calls[c].pollId, calls[c].user)],
                             "ok"))
         ELSE /\ Set(c, Done(calls[c], "storage"))
              /\ UNCHANGED votes
  /\ UNCHANGED <<polls, nextId>>

(* castVote *)
CastVote(c, poll_id, user_id, option_index, session) ==
  /\ calls[c].pc = "idle"
  /\ LET rec0 == [Idle EXCEPT !.op = "castVote",
                              !.pollId = poll_id, !.voter = user_id,
                              !.optionIndex = option_index]
         rec1 == [rec0 EXCEPT !.stored = TRUE, !.session = session]
     IN  IF Falsy(poll_id) \/ user_id = ""
           THEN Set(c, Done(rec0, "missing")) /\ UNCHANGED votes
         ELSE \E error \in BOOLEAN :
                IF ~error
                  THEN /\ votes' = UpsertVote(poll_id, user_id, option_index)
                       /\ Set(c, Done([rec1 EXCEPT
                                         !.replaced = Replaced(poll_id, user_id)], "ok"))
                  ELSE /\ Set(c, Done(rec1, "storage"))
                       /\ UNCHANGED votes
  /\ UNCHANGED <<polls, nextId>>

\* deletePoll without its ownership check
DeleteDenied_Never(owner, user) == FALSE

\* deletePoll: existing.user_id !== user.id
DeleteDenied(owner, user) == owner # user

\* updatePoll letting an admin through
UpdateDenied_AdminPasses(owner, user) == owner # user /\ Role(user) # "admin"

\* updatePoll: existing.user_id !== user.id
UpdateDenied(owner, user) == owner # user

(* deletePoll: id check, identity, ownership lookup *)
DeletePollFind(c, id, session) ==
  /\ calls[c].pc = "idle"
  /\ LET rec0 == [Idle EXCEPT !.op = "deletePoll", !.pollId = id]
         user == getAuthenticatedUser(session)
         rec1 == [rec0 EXCEPT !.resolved = TRUE, !.session = session]
         rec2 == [rec1 EXCEPT !.user = user, !.stored = TRUE]
     IN  IF Falsy(id) THEN Set(c, Done(rec0, "invalid_id"))
         ELSE IF user = "throw" THEN Set(c, Done(rec1, "session"))
         ELSE IF user = "null" THEN Set(c, Done(rec1, "unauthenticated"))
         ELSE IF ~SingleFound(id) THEN Set(c, Done(rec2, "notfound"))
         ELSE LET rec3 == [rec2 EXCEPT !.existing = ThePoll(id).user_id]
              IN  IF DeleteDenied(rec3.existing, user)
                    THEN Set(c, Done(rec3, "forbidden"))
                    ELSE Set(c, [rec3 EXCEPT !.pc = "delete"])
  /\ UNCHANGED <<polls, votes, nextId>>

\* a deletePoll that removes the poll's votes by a statement of its own before
\* the delete of the poll row, which may then fail
DeletePollDelete_VotesFirst(c) ==
  /\ calls[c].pc = "delete"
  /\ \E error \in BOOLEAN :
       IF ~error
         THEN /\ polls' = DeletePollRows(calls[c].pollId)
              /\ votes' = CascadeVotes(calls[c].pollId)
              /\ Set(c, Done([calls[c] EXCEPT !.revalidated = PollsPath], "ok"))
         ELSE /\ Set(c, Done(calls[c], "storage"))
              /\ votes' = CascadeVotes(calls[c].pollId)
              /\ UNCHANGED polls
  /\ UNCHANGED nextId

(* deletePoll: the delete and the revalidation *)
DeletePollDelete(c) ==
  /\ calls[c].pc = "delete"
  /\ \E error \in BOOLEAN :
       IF ~error
         THEN /\ polls' = DeletePollRows(calls[c].pollId)
              /\ votes' = CascadeVotes(calls[c].pollId)
              /\ Set(c, Done([calls[c] EXCEPT !.revalidated = PollsPath], "ok"))
         ELSE /\ Set(c, Done(calls[c], "storage"))
              /\ UNCHANGED <<polls, votes>>
  /\ UNCHANGED nextId

\* an updatePoll that compares the owner before it looks at the lookup's error:
\* the owner of a row that was not found is none, which is not the caller
UpdatePollFind_OwnerFirst(c, pollId, fd, session) ==
  /\ calls[c].pc = "idle"
  /\ LET question == QuestionOf(fd)
         options  == NormalizeOptions(fd.options)
         rec0 == [Idle EXCEPT !.op = "updatePoll", !.pollId = pollId, !.form = fd,
                              !.question = question, !.options = options]
         user == getAuthenticatedUser(session)
         rec1 == [rec0 EXCEPT !.resolved = TRUE, !.session = session]
         rec2 == [rec1 EXCEPT !.user = user, !.stored = TRUE]
         rec3 == [rec2 EXCEPT !.existing = IF SingleFound(pollId)
                                             THEN ThePoll(pollId).user_id ELSE "none"]
     IN  IF ~CreateUpdatePollSchema(question, options)
           THEN Set(c, Done(rec0, "validation"))
         ELSE IF user = "throw" THEN Set(c, Done(rec1, "session"))
         ELSE IF user = "null" THEN Set(c, Done(rec1, "unauthenticated"))
         ELSE IF UpdateDenied(rec3.existing, user) THEN Set(c, Done(rec3, "forbidden"))
         ELSE IF ~SingleFound(pollId) THEN Set(c, Done(rec2, "notfound"))
         ELSE Set(c, [rec3 EXCEPT !.pc = "update"])
  /\ UNCHANGED <<polls, votes, nextId>>

(* updatePoll: validation, identity, ownership lookup *)
UpdatePollFind(c, pollId, fd, session) ==
  /\ calls[c].pc = "idle"
  /\ LET question == QuestionOf(fd)
         options  == NormalizeOptions(fd.options)
         rec0 == [Idle EXCEPT !.op = "updatePoll", !.pollId = pollId, !.form = fd,
                              !.question = question, !.options = options]
         user == getAuthenticatedUser(session)
         rec1 == [rec0 EXCEPT !.resolved = TRUE, !.session = session]
         rec2 == [rec1 EXCEPT !.user = user, !.stored = TRUE]
     IN  IF ~CreateUpdatePollSchema(question, options)
           THEN Set(c, Done(rec0, "validation"))
         ELSE IF user = "throw" THEN Set(c, Done(rec1, "session"))
         ELSE IF user = "null" THEN Set(c, Done(rec1, "unauthenticated"))
         ELSE IF ~SingleFound(pollId) THEN Set(c, Done(rec2, "notfound"))
         ELSE LET rec3 == [rec2 EXCEPT !.existing = ThePoll(pollId).user_id]
              IN  IF UpdateDenied(rec3.existing, user)
                    THEN Set(c, Done(rec3, "forbidden"))
                    ELSE Set(c, [rec3 EXCEPT !.pc = "update"])
  /\ UNCHANGED <<polls, votes, nextId>>

(* updatePoll: the update and the revalidation *)
UpdatePollUpdate(c) ==
  /\ calls[c].pc = "update"
  /\ \E error \in BOOLEAN :
       IF ~error
         THEN /\ polls' = UpdatePollRows(calls[c].pollId, calls[c].question,
                                         calls[c].options)
              /\ Set(c, Done([calls[c] EXCEPT !.revalidated = PollPath(calls[c].pollId)],
                             "ok"))
         ELSE /\ Set(c, Done(calls[c], "storage"))
              /\ UNCHANGED polls
  /\ UNCHANGED <<votes, nextId>>

(* the caller has its result: the invocation is over *)
Return(c) ==
  /\ calls[c].pc = "done"
  /\ Set(c, Idle)
  /\ UNCHANGED <<polls, votes, nextId>>

---------------------------------------------------------------------------
(* Client auth context: AuthProvider *)

Server == <<polls, votes, nextId, calls>>

\* useEffect: initAuth() is called and runs up to its await of getSession; the
\* listener is subscribed
Mount ==
  /\ auth.mounted = "new"
  /\ auth' = [auth EXCEPT !.mounted = "true", !.initPc = "awaiting"]
  /\ UNCHANGED Server

\* supabase.auth.getSession() takes the session it resolves with: the one the
\* client holds, or none with an error; initAuth continues in a later task
GetSession(error) ==
  /\ auth.initPc = "awaiting"
  /\ auth' = [auth EXCEPT !.initPc = "resolved",
                          !.initData = IF error THEN NullValue ELSE auth.provider]
  /\ UNCHANGED Server

\* initAuth after its await
InitAuth ==
  /\ auth.initPc = "resolved"
  /\ auth' = IF auth.mounted = "true"
               THEN [SetSessionAndUser(auth, auth.initData) EXCEPT
                       !.loading = FALSE, !.initPc = "done", !.lastSet = "init"]
               ELSE [auth EXCEPT !.initPc = "done"]
  /\ UNCHANGED Server

\* the Supabase client's session changes to s (a sign-in, a token refresh, a
\* sign-out elsewhere); the onAuthStateChange callback runs while subscribed
AuthStateChange(s) ==
  /\ auth.events < MaxEvents
  /\ auth' = IF auth.mounted = "true"
               THEN [SetSessionAndUser(auth, s) EXCEPT
                       !.provider = s, !.events = auth.events + 1,
                       !.lastEvent = s, !.lastSet = "event"]
               ELSE [auth EXCEPT !.provider = s, !.events = auth.events + 1]
  /\ UNCHANGED Server

\* signOut is called and awaits supabase.auth.signOut()
SignOutCalled ==
  /\ auth.mounted = "true"
  /\ auth.signOutPc = "idle"
  /\ auth' = [auth EXCEPT !.signOutPc = "awaiting"]
  /\ UNCHANGED Server

\* supabase.auth.signOut() resolves; with no error the client holds no session
SignOutResolves(error) ==
  /\ auth.signOutPc = "awaiting"
  /\ auth' = IF error THEN [auth EXCEPT !.signOutPc = "thrown"]
               ELSE [auth EXCEPT !.signOutPc = "resolved", !.provider = NullValue]
  /\ UNCHANGED Server

\* signOut after its await: it throws the error, or sets session and user to null
SignOut ==
  /\ auth.signOutPc \in {"thrown", "resolved"}
  /\ auth' = IF auth.signOutPc = "thrown"
               THEN [auth EXCEPT !.signOutPc = "idle"]
               ELSE [auth EXCEPT !.signOutPc = "idle", !.session = NullValue,
                                 !.user = NullValue, !.lastSet = "signOut"]
  /\ UNCHANGED Server

\* the effect's cleanup: mounted = false, the listener is unsubscribed
Unmount ==
  /\ auth.mounted = "true"
  /\ auth' = [auth EXCEPT !.mounted = "false"]
  /\ UNCHANGED Server

---------------------------------------------------------------------------
(* Inputs *)

Str(ch, n) == Rep(ch, n)

Form(q, os) == [question |-> <<q>>, options |-> os]

\* two options, with surrounding blanks and an empty entry to drop
FormA == Form(Str("q", MinQuestion), <<<<" ", "a">>, <<>>, <<"b", " ">>>>)
\* three options
FormB == Form(Str("r", MinQuestion), <<<<"a">>, <<"b">>, <<"c">>>>)
\* too short a question
FormShort == Form(Str("q", MinQuestion - 1), <<<<"a">>, <<"b">>>>)

Forms == {FormA, FormB, FormShort}

\* the option indexes a client sends: negative, the first, the largest
Indexes == {-1, 0, MaxIndex}
ValidForms == {FormA, FormB}

\* the ambient session of a request; castVote never reads it
Ambient == {"absent", "ann", "adm"}

(* One invocation at a time, every input *)
Next ==
  LET c == 1 IN
    \/ \E fd \in Forms, s \in Sessions : CreatePoll(c, fd, s, MaxPolls)
    \/ \E s \in Sessions : GetUserPolls(c, s)
    \/ \E id \in 0..MaxPolls : GetPollById(c, id)
    \/ \E id \in (-1)..MaxPolls, i \in Indexes, s \in Sessions : SubmitVoteRead(c, id, i, s)
    \/ SubmitVoteUpsert(c)
    \/ \E id \in 0..MaxPolls, u \in Users \cup {""}, i \in Indexes \ {-1}, s \in Ambient :
         CastVote(c, id, u, i, s)
    \/ \E id \in 0..MaxPolls, s \in Sessions : DeletePollFind(c, id, s)
    \/ DeletePollDelete(c)
    \/ \E id \in 1..MaxPolls, fd \in Forms, s \in Sessions : UpdatePollFind(c, id, fd, s)
    \/ UpdatePollUpdate(c)
    \/ Return(c)

Spec == Init /\ [][Next]_vars

(* One invocation at a time, several polls, authenticated callers and
   well-formed input *)
NextPolls ==
  LET c == 1 IN
    \/ \E fd \in ValidForms, s \in Users : CreatePoll(c, fd, s, ListPolls)
    \/ \E s \in Sessions : GetUserPolls(c, s)
    \/ \E id \in 0..ListPolls : GetPollById(c, id)
    \/ \E id \in 1..ListPolls, s \in Users : SubmitVoteRead(c, id, 0, s)
    \/ SubmitVoteUpsert(c)
    \/ \E id \in 1..ListPolls, s \in Users : DeletePollFind(c, id, s)
    \/ DeletePollDelete(c)
    \/ \E id \in 1..ListPolls, fd \in ValidForms, s \in Users : UpdatePollFind(c, id, fd, s)
    \/ UpdatePollUpdate(c)
    \/ Return(c)

SpecPolls == Init /\ [][NextPolls]_vars

(* Two invocations at a time on the polls of the admin: both users vote and try
   to delete, the owner shortens the option list, and castVote is called with
   no session for the other user *)
NextRace ==
  \E c \in Calls :
    \/ CreatePoll(c, FormB, "adm", MaxPolls)
    \/ \E id \in 1..MaxPolls, i \in Indexes \ {-1}, s \in Users : SubmitVoteRead(c, id, i, s)
    \/ SubmitVoteUpsert(c)
    \/ \E id \in 1..MaxPolls, i \in Indexes \ {-1} : CastVote(c, id, "ann", i, "absent")
    \/ \E id \in 1..MaxPolls, s \in Users : DeletePollFind(c, id, s)
    \/ DeletePollDelete(c)
    \/ \E id \in 1..MaxPolls : UpdatePollFind(c, id, FormA, "adm")
    \/ UpdatePollUpdate(c)
    \/ Return(c)

SpecRace == Init /\ [][NextRace]_vars

(* One invocation at a time, createPoll on the limits of its schema *)

\* n options "a", "b", "c", "a", ... of len characters each, every one wrapped
\* in blanks, with an empty and a blank entry in front
OptionChars == <<"a", "b", "c">>
Wrapped(n, len) ==
  <<<<>>, <<" ", " ">>>> \o
  [i \in 1..n |-> <<" ">> \o Rep(OptionChars[(i % 3) + 1], len) \o <<" ">>]

QuestionFields ==
  {<<>>} \cup {<<Str("q", n)>> : n \in {MinQuestion - 1, MinQuestion,
                                        MaxQuestion, MaxQuestion + 1}}

OptionLists ==
  {Wrapped(n, 1) : n \in {0, MinOptions - 1, MinOptions, MaxOptions, MaxOptions + 1}}
    \cup {Wrapped(MinOptions, len) : len \in {MaxOptionLen, MaxOptionLen + 1}}
    \cup {<<<<"a">>, <<" ">>, <<"b", " ", "c">>>>, <<<<" ">>, <<>>, <<"a">>>>}

LimitForms == {[question |-> q, options |-> os] : q \in QuestionFields, os \in OptionLists}

NextForm ==
  LET c == 1 IN
    \/ \E fd \in LimitForms, s \in Sessions : CreatePoll(c, fd, s, MaxPolls)
    \/ \E id \in 1..MaxPolls : GetPollById(c, id)
    \/ Return(c)

SpecForm == Init /\ [][NextForm]_vars

(* One invocation at a time, createPoll by one user and updatePoll by either on
   the limits of the schema: the forms at the least and the most the schema lets
   through, and the forms that are just outside in one respect *)
EditForms ==
  {[question |-> <<Str("q", n)>>, options |-> os] :
     n \in {MinQuestion, MaxQuestion},
     os \in {Wrapped(MinOptions, 1), Wrapped(MaxOptions, 1),
             Wrapped(MinOptions, MaxOptionLen)}}
    \cup {[question |-> q, options |-> Wrapped(MinOptions, 1)] :
            q \in {<<>>, <<Str("q", MinQuestion - 1)>>, <<Str("q", MaxQuestion + 1)>>}}
    \cup {[question |-> <<Str("q", MinQuestion)>>, options |-> os] :
            os \in {Wrapped(MinOptions - 1, 1), Wrapped(MaxOptions + 1, 1),
                    Wrapped(MinOptions, MaxOptionLen + 1),
                    <<<<" ">>, <<>>, <<"a">>>>}}

NextEdit ==
  LET c == 1 IN
    \/ \E fd \in EditForms : CreatePoll(c, fd, "ann", MaxPolls)
    \/ \E id \in 1..MaxPolls, fd \in EditForms, s \in Users : UpdatePollFind(c, id, fd, s)
    \/ UpdatePollUpdate(c)
    \/ Return(c)

SpecEdit == Init /\ [][NextEdit]_vars

(* The AuthProvider of one browser tab *)

RawUser(id, email) ==
  [kind |-> "object", id |-> id, email |-> email, aud |-> "authenticated"]

RawSession(access_token, refresh_token, u) ==
  [kind |-> "object", access_token |-> access_token,
   refresh_token |-> refresh_token, user |-> u, expires_in |-> 3600]

\* what the Supabase client hands out: sessions of two users, one with a null
\* refresh token and a null e-mail; a session whose user has no e-mail key;
\* a session with no user key; a session with a null user
RawSessions ==
  {RawSession("at1", "rt1", RawUser("ann", "u@x.org")),
   RawSession("at2", "null", RawUser("adm", "null")),
   RawSession("at1", "rt1", RawUser("ann", "undefined")),
   RawSession("at1", "rt1", NoValue),
   RawSession("at1", "rt1", NullValue)}

NextAuth ==
  \/ Mount
  \/ \E error \in BOOLEAN : GetSession(error)
  \/ InitAuth
  \/ \E s \in RawSessions \cup {NullValue} : AuthStateChange(s)
  \/ SignOutCalled
  \/ \E error \in BOOLEAN : SignOutResolves(error)
  \/ SignOut
  \/ Unmount

SpecAuth == Init /\ [][NextAuth]_vars

---------------------------------------------------------------------------
(* Properties *)

VoteRow(p, u, i) == [poll_id |-> p, user_id |-> u, option_index |-> i]
VotesOn(p) == {v \in votes : v.poll_id = p}
IsDone(c, op, r) == calls[c].pc = "done" /\ calls[c].op = op /\ calls[c].result = r
\* call c takes the first step of an invocation of op
Begins(c, op) == calls[c].pc = "idle" /\ calls'[c].op = op

\* C1: when a submitVote of voter u on poll p with option index i succeeds, the
\* votes table holds exactly one row for (p, u) and it carries i: the row the
\* voter had before, with whatever index, is gone.
C1_SubmitVoteOverwrites ==
  [][\A c \in Calls :
       (calls[c].pc = "upsert" /\ calls'[c].pc = "done" /\ calls'[c].result = "ok")
         => (VotesOf(calls[c].pollId, calls[c].user))'
              = {VoteRow(calls[c].pollId, calls[c].user, calls[c].optionIndex)}]_vars

\* a submitVote has succeeded on a pair that held a row with another index
C1_Witness ==
  \E c \in Calls :
    /\ IsDone(c, "submitVote", "ok")
    /\ calls[c].replaced \notin {-1, calls[c].optionIndex}
    /\ VotesOf(calls[c].pollId, calls[c].user)
         = {VoteRow(calls[c].pollId, calls[c].user, calls[c].optionIndex)}

\* C2: with two submitVote calls interleaved at their poll read and their upsert,
\* no (poll_id, user_id) pair ever has two vote rows, and when both calls were
\* for the same pair and succeeded the row carries the index of one of them.
C2_OneRowUnderRace ==
  /\ \A v, w \in votes : (v.poll_id = w.poll_id /\ v.user_id = w.user_id) => v = w
  /\ \A c, d \in Calls :
       (/\ c # d
        /\ IsDone(c, "submitVote", "ok") /\ IsDone(d, "submitVote", "ok")
        /\ calls[c].pollId = calls[d].pollId /\ calls[c].user = calls[d].user)
         => \E v \in VotesOf(calls[c].pollId, calls[c].user) :
              v.option_index \in {calls[c].optionIndex, calls[d].optionIndex}

\* both calls succeeded for one pair with different indexes, the second
\* replacing the row of the first
C2_Witness ==
  \E c, d \in Calls :
    /\ c # d
    /\ IsDone(c, "submitVote", "ok") /\ IsDone(d, "submitVote", "ok")
    /\ calls[c].pollId = calls[d].pollId /\ calls[c].user = calls[d].user
    /\ calls[c].optionIndex # calls[d].optionIndex
    /\ calls[d].replaced = calls[c].optionIndex
    /\ VotesOf(calls[d].pollId, calls[d].user)
         = {VoteRow(calls[d].pollId, calls[d].user, calls[d].optionIndex)}

\* the authorization rule of the design
Authorize(actor, role, owner, action) ==
  actor = owner \/ (action = "delete" /\ role = "admin")

ActionOf(op) == IF op = "deletePoll" THEN "delete" ELSE "update"

\* C3: a deletePoll or updatePoll that has looked up the poll's owner is denied
\* exactly when the actor is not the owner and is not an admin deleting.
C3_AuthorizationRule ==
  \A c \in Calls :
    calls[c].existing # "none"
      => ((calls[c].pc = "done" /\ calls[c].result = "forbidden")
            <=> ~Authorize(calls[c].user, Role(calls[c].user), calls[c].existing,
                           ActionOf(calls[c].op)))

\* C4: a deletePoll on an existing poll by an authenticated caller who is neither
\* its owner nor an admin ends at once with the forbidden error, and leaves the
\* polls and the votes tables as they were.
C4_DeleteByStrangerDenied ==
  [][\A c \in Calls :
       (/\ Begins(c, "deletePoll")
        /\ calls'[c].user \in Users
        /\ SingleFound(calls'[c].pollId)
        /\ ThePoll(calls'[c].pollId).user_id # calls'[c].user
        /\ Role(calls'[c].user) # "admin")
         => (/\ calls'[c].pc = "done"
             /\ calls'[c].result = "forbidden"
             /\ polls' = polls
             /\ votes' = votes)]_vars

\* a caller who is no admin was denied the delete of another's poll that has votes
C4_Witness ==
  \E c \in Calls :
    /\ IsDone(c, "deletePoll", "forbidden")
    /\ Role(calls[c].user) # "admin"
    /\ SingleFound(calls[c].pollId)
    /\ ThePoll(calls[c].pollId).user_id # calls[c].user
    /\ VotesOn(calls[c].pollId) # {}

\* C5: an updatePoll with valid input on an existing poll by an authenticated
\* caller who is not its owner, admin or not, ends at once with the forbidden
\* error, and leaves the polls table as it was.
C5_UpdateByNonOwnerDenied ==
  [][\A c \in Calls :
       (/\ Begins(c, "updatePoll")
        /\ calls'[c].user \in Users
        /\ SingleFound(calls'[c].pollId)
        /\ ThePoll(calls'[c].pollId).user_id # calls'[c].user)
         => (/\ calls'[c].pc = "done"
             /\ calls'[c].result = "forbidden"
             /\ polls' = polls)]_vars

\* an admin was denied the update of another's poll to a question it does not have
C5_Witness ==
  \E c \in Calls :
    /\ IsDone(c, "updatePoll", "forbidden")
    /\ Role(calls[c].user) = "admin"
    /\ SingleFound(calls[c].pollId)
    /\ ThePoll(calls[c].pollId).user_id # calls[c].user
    /\ ThePoll(calls[c].pollId).question # calls[c].question

\* C6: a call made with no session that is past its input checks ends with the
\* not-authenticated error and has touched no table.
C6_NoIdentityNoStorage ==
  \A c \in Calls :
    calls[c].session = "absent"
      => (/\ calls[c].pc = "done"
          /\ calls[c].result = "unauthenticated"
          /\ ~calls[c].stored)

\* C7: when the owner's deletePoll succeeds the poll row and every vote row of the
\* poll are gone; a poll id that was given out and has no row never gets one
\* again; and a getPollById on such an id ends with the not-found error.
C7_DeletedStaysDeleted ==
  [][/\ \A c \in Calls :
          (calls[c].pc = "delete" /\ calls'[c].pc = "done" /\ calls'[c].result = "ok")
            => (/\ calls[c].user = calls[c].existing
                /\ (PollsWithId(calls[c].pollId))' = {}
                /\ (VotesOn(calls[c].pollId))' = {})
     /\ \A id \in 1..(nextId - 1) :
          PollsWithId(id) = {} => (PollsWithId(id))' = {}
     /\ \A c \in Calls :
          (/\ Begins(c, "getPollById")
           /\ calls'[c].pollId \in 1..(nextId - 1)
           /\ PollsWithId(calls'[c].pollId) = {})
            => (calls'[c].pc = "done" /\ calls'[c].result = "notfound")]_vars

\* a getPollById on a deleted poll's id came back not-found after a later poll
\* was created, which still stands with its votes
C7_Witness ==
  \E c \in Calls :
    /\ IsDone(c, "getPollById", "notfound")
    /\ calls[c].pollId \in 1..(nextId - 1)
    /\ \E r \in polls : r.id > calls[c].pollId /\ VotesOn(r.id) # {}

\* C8: every vote row refers to a poll that exists.
C8_NoOrphanVotes == \A v \in votes : PollsWithId(v.poll_id) # {}

RECURSIVE Cleaned(_)
\* an option list with every entry trimmed and the entries that come out empty dropped
Cleaned(raw) ==
  IF raw = <<>> THEN <<>>
  ELSE LET t == Trim(Head(raw))
       IN  (IF t = <<>> THEN <<>> ELSE <<t>>) \o Cleaned(Tail(raw))

InRange(n, lo, hi) == n >= lo /\ n <= hi

QuestionInRange(fd) == InRange(Len(QuestionOf(fd)), MinQuestion, MaxQuestion)
CountInRange(fd) == InRange(Len(Cleaned(fd.options)), MinOptions, MaxOptions)
EntriesInRange(fd) ==
  \A i \in 1..Len(Cleaned(fd.options)) :
    InRange(Len(Cleaned(fd.options)[i]), MinOptionLen, MaxOptionLen)

\* C9: a createPoll whose question has 5..1000 characters and whose cleaned
\* option list has 2..50 entries of 1..300 characters passes validation; made by
\* an authenticated user it returns no error unless the store rejects the
\* insert; on success the new row has that question, the cleaned options in
\* their order, and the caller as owner; and getPollById on an existing poll
\* returns its row as stored.
C9_CreateThenGet ==
  [][\A c \in Calls :
       /\ (/\ Begins(c, "createPoll")
           /\ QuestionInRange(calls'[c].form)
           /\ CountInRange(calls'[c].form)
           /\ EntriesInRange(calls'[c].form))
            => (/\ calls'[c].result # "validation"
                /\ calls'[c].session \in Users
                     => calls'[c].result \in {"ok", "storage"}
                /\ calls'[c].result = "ok"
                     => (/\ calls'[c].session \in Users
                         /\ polls' = polls \cup
                              {[id |-> calls'[c].pollId,
                                user_id |-> calls'[c].session,
                                question |-> QuestionOf(calls'[c].form),
                                options |-> Cleaned(calls'[c].form.options),
                                created_at |-> calls'[c].pollId]}
                         /\ PollsWithId(calls'[c].pollId) = {}))
       /\ (Begins(c, "getPollById") /\ SingleFound(calls'[c].pollId))
            => (/\ calls'[c].result = "ok"
                /\ calls'[c].data = <<ThePoll(calls'[c].pollId)>>)]_vars

\* getPollById returned a poll whose options were trimmed and filtered on the way
\* in, with the question and the owner it was created with
C9_Witness ==
  \E c \in Calls :
    /\ IsDone(c, "getPollById", "ok")
    /\ Len(calls[c].data) = 1
    /\ calls[c].data[1].options = <<<<"b">>, <<"c">>>>
    /\ Len(calls[c].data[1].question) = MaxQuestion
    /\ calls[c].data[1].user_id \in Users

\* C10: a createPoll whose question is shorter than 5 or longer than 1000
\* characters, or whose cleaned option list has fewer than 2 or more than 50
\* entries, ends with the validation error and leaves the polls table as it was.
C10_InvalidCreateRejected ==
  [][\A c \in Calls :
       (/\ Begins(c, "createPoll")
        /\ ~(QuestionInRange(calls'[c].form) /\ CountInRange(calls'[c].form)))
         => (/\ calls'[c].pc = "done"
             /\ calls'[c].result = "validation"
             /\ polls' = polls)]_vars

\* a createPoll with a good question and one option too many was rejected
C10_Witness ==
  \E c \in Calls :
    /\ IsDone(c, "createPoll", "validation")
    /\ QuestionInRange(calls[c].form)
    /\ Len(Cleaned(calls[c].form.options)) = MaxOptions + 1
    /\ EntriesInRange(calls[c].form)

\* C11: a submitVote by an authenticated caller on an existing poll with an option
\* index at or beyond the number of options the poll has when the call reads it
\* ends at that read with the invalid-option error, never reaches the upsert, and
\* leaves the votes table as it was.
C11_StaleIndexRejected ==
  [][\A c \in Calls :
       (/\ Begins(c, "submitVote")
        /\ calls'[c].user \in Users
        /\ SingleFound(calls'[c].pollId)
        /\ calls'[c].optionIndex >= Len(ThePoll(calls'[c].pollId).options))
         => (/\ calls'[c].pc = "done"
             /\ calls'[c].result = "invalid_option"
             /\ votes' = votes)]_vars

\* the voter's own earlier vote carries the index that is now refused: the index
\* was in range when that vote was written and the option list was shortened since
C11_Witness ==
  \E c \in Calls :
    /\ IsDone(c, "submitVote", "invalid_option")
    /\ calls[c].user = "adm"
    /\ SingleFound(calls[c].pollId)
    /\ calls[c].optionIndex = Len(ThePoll(calls[c].pollId).options)
    /\ VoteRow(calls[c].pollId, "adm", calls[c].optionIndex) \in votes

\* the invocation c takes this step
Steps(c) == calls'[c] # calls[c]
\* the step ends the invocation c with the result r
Ends(c, r) == Steps(c) /\ calls'[c].pc = "done" /\ calls'[c].result = r

\* C12: a step of an invocation that does not end it with success changes neither
\* the polls nor the votes table, and leaves it without a revalidated path: an
\* invocation that returns an error has written nothing and invalidated nothing.
C12_ErrorHasNoEffect ==
  [][\A c \in Calls :
       (Steps(c) /\ ~Ends(c, "ok"))
         => (/\ polls' = polls
             /\ votes' = votes
             /\ calls'[c].revalidated = NoPath)]_vars

\* the owner's deletePoll got the store's error at its delete: the poll is still
\* there with its votes, and no path was revalidated
C12_Witness ==
  \E c \in Calls :
    /\ IsDone(c, "deletePoll", "storage")
    /\ SingleFound(calls[c].pollId)
    /\ ThePoll(calls[c].pollId).user_id = calls[c].user
    /\ VotesOn(calls[c].pollId) # {}
    /\ calls[c].revalidated = NoPath

\* C13: the vote rows of a pair (poll, voter) change only in a step that ends a
\* vote submission made under the voter's own session with success, or in a step
\* that ends a deletePoll of that poll with success and leaves the pair no row.
C13_VoteOnlyByVoter ==
  [][\A v \in votes \cup votes' :
       (VotesOf(v.poll_id, v.user_id))' # VotesOf(v.poll_id, v.user_id)
         => \E c \in Calls :
              /\ Ends(c, "ok")
              /\ calls'[c].pollId = v.poll_id
              /\ \/ /\ calls'[c].op \in {"submitVote", "castVote"}
                    /\ calls'[c].session = v.user_id
                 \/ /\ calls'[c].op = "deletePoll"
                    /\ (VotesOf(v.poll_id, v.user_id))' = {}]_vars

\* C14: a deletePoll or an updatePoll that has resolved its caller and finds no
\* poll with the given id ends at that lookup with the not-found error; and a
\* forbidden error is only ever returned for a poll whose owner was looked up.
C14_NotFoundBeforeForbidden ==
  [][\A c \in Calls :
       /\ (/\ Begins(c, "deletePoll") \/ Begins(c, "updatePoll")
           /\ calls'[c].user \in Users
           /\ PollsWithId(calls'[c].pollId) = {})
            => (calls'[c].pc = "done" /\ calls'[c].result = "notfound")
       /\ Ends(c, "forbidden")
            => (/\ SingleFound(calls'[c].pollId)
                /\ calls'[c].existing = ThePoll(calls'[c].pollId).user_id)]_vars

\* the former owner's updatePoll on the id of a poll that was deleted came back
\* not-found
C14_Witness ==
  \E c \in Calls :
    /\ IsDone(c, "updatePoll", "notfound")
    /\ calls[c].user \in Users
    /\ calls[c].pollId \in 1..(nextId - 1)
    /\ PollsWithId(calls[c].pollId) = {}

\* a form the validation layer refuses: the question, the number of cleaned
\* options or the length of a cleaned option is out of range
MalformedForm(fd) == ~(QuestionInRange(fd) /\ CountInRange(fd) /\ EntriesInRange(fd))

\* C15: a createPoll or updatePoll with a malformed form, and a submitVote with a
\* poll id that is no uuid or with a negative option index, ends in its first step
\* with the validation error whatever the session is, without the identity
\* resolver having run and without a table having been read or written.
C15_ValidationFirst ==
  [][\A c \in Calls :
       (\/ /\ Begins(c, "createPoll") \/ Begins(c, "updatePoll")
           /\ MalformedForm(calls'[c].form)
        \/ /\ Begins(c, "submitVote")
           /\ calls'[c].pollId < 1 \/ calls'[c].optionIndex < 0)
         => (/\ calls'[c].pc = "done"
             /\ calls'[c].result = "validation"
             /\ ~calls'[c].resolved
             /\ ~calls'[c].stored
             /\ polls' = polls
             /\ votes' = votes)]_vars

\* an updatePoll on an existing poll with too short a question, or a submitVote
\* on an existing poll with a negative index, was refused with the identity
\* unresolved and no table read
C15_Witness ==
  \E c \in Calls :
    /\ calls[c].pc = "done"
    /\ calls[c].result = "validation"
    /\ ~calls[c].resolved
    /\ ~calls[c].stored
    /\ SingleFound(calls[c].pollId)
    /\ \/ calls[c].op = "updatePoll" /\ Len(calls[c].question) = MinQuestion - 1
       \/ calls[c].op = "submitVote" /\ calls[c].optionIndex < 0

OwnedBy(u) == {r \in polls : r.user_id = u}

C17_StoredPollsValid ==
  \A r \in polls :
    /\ InRange(Len(r.question), MinQuestion, MaxQuestion)
    /\ InRange(Len(r.options), MinOptions, MaxOptions)
    /\ \A i \in 1..Len(r.options) :
         Trim(r.options[i]) # <<>> /\ Len(r.options[i]) <= MaxOptionLen

\* an updatePoll has put the longest question and the most options the schema
\* lets through into a poll
C17_Witness ==
  \E c \in Calls :
    /\ IsDone(c, "updatePoll", "ok")
    /\ SingleFound(calls[c].pollId)
    /\ Len(ThePoll(calls[c].pollId).question) = MaxQuestion
    /\ Len(ThePoll(calls[c].pollId).options) = MaxOptions
    /\ ThePoll(calls[c].pollId).options = calls[c].options

\* C18: when a submitVote or a castVote writes its vote row for a poll that
\* exists, the row's option index is an index into the options the poll has at
\* that moment.
C18_IndexValidWhenWritten ==
  [][\A c \in Calls :
       (/\ Ends(c, "ok")
        /\ calls'[c].op \in {"submitVote", "castVote"}
        /\ SingleFound(calls'[c].pollId))
         => (/\ calls'[c].optionIndex >= 0
             /\ calls'[c].optionIndex < Len(ThePoll(calls'[c].pollId).options))]_vars

\* C19: the step in which an updatePoll succeeds leaves the votes table and every
\* other poll as they were and gives the poll with the given id the question and
\* the cleaned options of the form, its id, owner and creation time kept; in
\* every step a poll that stays keeps its owner and creation time; and a poll
\* that a createPoll inserts is owned by the session's user.
C19_UpdateChangesOnlyContent ==
  [][/\ \A c \in Calls :
          (calls[c].pc = "update" /\ Ends(c, "ok"))
            => (/\ votes' = votes
                /\ {r.id : r \in polls'} = {r.id : r \in polls}
                /\ Cardinality(polls') = Cardinality(polls)
                /\ \A r \in polls, t \in polls' :
                     r.id = t.id
                       => IF r.id = calls[c].pollId
                            THEN t = [r EXCEPT
                                        !.question = QuestionOf(calls[c].form),
                                        !.options = Cleaned(calls[c].form.options)]
                            ELSE t = r)
     /\ \A r \in polls, t \in polls' :
          r.id = t.id => (t.user_id = r.user_id /\ t.created_at = r.created_at)
     /\ \A c \in Calls :
          (Begins(c, "createPoll") /\ Ends(c, "ok"))
            => \A t \in polls' \ polls : t.user_id = calls'[c].session]_vars

\* an updatePoll succeeded on one of two polls that has votes, the other poll
\* being another user's, with another question and with votes of its own
C19_Witness ==
  \E c \in Calls :
    /\ IsDone(c, "updatePoll", "ok")
    /\ SingleFound(calls[c].pollId)
    /\ ThePoll(calls[c].pollId).question = QuestionOf(calls[c].form)
    /\ ThePoll(calls[c].pollId).user_id = calls[c].user
    /\ VotesOn(calls[c].pollId) # {}
    /\ \E r \in polls :
         /\ r.id # calls[c].pollId
         /\ r.user_id # calls[c].user
         /\ r.question # QuestionOf(calls[c].form)
         /\ VotesOn(r.id) # {}

\* C20: an invocation has a revalidated path only from the step in which its
\* write succeeded; the step in which a createPoll inserts its row or a
\* deletePoll deletes its poll revalidates the listing, and the step in which a
\* submitVote upserts its row or an updatePoll updates its poll revalidates the
\* page of that poll.
C20_RevalidateAfterWrite ==
  [][\A c \in Calls :
       Steps(c)
         => LET rec == calls'[c]
            IN  /\ rec.revalidated # NoPath => (Ends(c, "ok") /\ rec.stored)
                /\ (Ends(c, "ok") /\ rec.op = "createPoll")
                     => (/\ rec.revalidated = PollsPath
                         /\ \E r \in polls' \ polls : r.id = rec.pollId)
                /\ (Ends(c, "ok") /\ rec.op = "deletePoll")
                     => (/\ rec.revalidated = PollsPath
                         /\ (PollsWithId(calls[c].pollId))' = {})
                /\ (Ends(c, "ok") /\ rec.op = "submitVote")
                     => (/\ rec.revalidated = PollPath(rec.pollId)
                         /\ VoteRow(rec.pollId, rec.user, rec.optionIndex) \in votes')
                /\ (Ends(c, "ok") /\ rec.op = "updatePoll")
                     => (/\ rec.revalidated = PollPath(rec.pollId)
                         /\ \A r \in (PollsWithId(calls[c].pollId))' :
                              r.question = rec.question /\ r.options = rec.options)]_vars

\* a submitVote has written its row and revalidated the page of its poll
C20_Witness ==
  \E c \in Calls :
    /\ IsDone(c, "submitVote", "ok")
    /\ calls[c].revalidated = PollPath(calls[c].pollId)
    /\ VoteRow(calls[c].pollId, calls[c].user, calls[c].optionIndex) \in votes
    /\ SingleFound(calls[c].pollId)

\* C21: a createPoll, getUserPolls, submitVote, deletePoll or updatePoll that
\* reaches the identity resolver while the session store is unreachable ends in
\* that step with the session error, which is a result of the invocation and not
\* the not-authenticated error; the resolver has run once and the invocation is
\* over, no table has been read or written, and no path was revalidated.
C21_SessionErrorIsReturned ==
  [][\A c \in Calls :
       (/\ Steps(c)
        /\ calls[c].pc = "idle"
        /\ calls'[c].op \in {"createPoll", "getUserPolls", "submitVote",
                              "deletePoll", "updatePoll"}
        /\ calls'[c].session = "unreachable")
         => (/\ calls'[c].pc = "done"
             /\ calls'[c].result = "session"
             /\ calls'[c].resolved
             /\ ~calls'[c].stored
             /\ calls'[c].revalidated = NoPath
             /\ polls' = polls
             /\ votes' = votes)]_vars

\* the owner's deletePoll of a poll with votes met an unreachable session store:
\* it returned the session error and the poll and its votes are still there
C21_Witness ==
  \E c \in Calls :
    /\ IsDone(c, "deletePoll", "session")
    /\ calls[c].session = "unreachable"
    /\ ~calls[c].stored
    /\ SingleFound(calls[c].pollId)
    /\ VotesOn(calls[c].pollId) # {}

\* C22: once the initial load, an auth state change or a signOut has set them,
\* session and user are both null, or session is a session and user is a user,
\* the one the session carries.
C22_SessionAndUserAgree ==
  auth.lastSet # "none"
    => \/ auth.session = NullValue /\ auth.user = NullValue
       \/ /\ auth.session.kind = "object"
          /\ auth.user.kind = "object"
          /\ auth.user = auth.session.user

\* initAuth continues after its await
InitAuthContinues == auth.initPc = "resolved" /\ auth'.initPc = "done"

\* C23: when an auth state change was the last to set session and user and its
\* session is still the one the Supabase client holds, initAuth's continuation
\* after getSession leaves session and user as that change set them; and after
\* the unmount it leaves session, user and loading alone.
C23_InitialLoadKeepsLatest ==
  [][/\ (/\ InitAuthContinues
         /\ auth.mounted = "true"
         /\ auth.lastSet = "event"
         /\ auth.provider = auth.lastEvent)
          => (auth'.session = auth.session /\ auth'.user = auth.user)
     /\ (InitAuthContinues /\ auth.mounted = "false")
          => (/\ auth'.session = auth.session
              /\ auth'.user = auth.user
              /\ auth'.loading = auth.loading)]_vars

===========================================================================
